---- MODULE Spec2Model ----
(***************************************************************************)
(* Blogicum (django_sprint4): the blog application's relational state and  *)
(* its request handlers (blog/views.py over blog/models.py, routed by      *)
(* blog/urls.py), as a state machine.                                      *)
(*                                                                         *)
(* One action per route.  Each action takes the request (requesting user,  *)
(* URL kwargs, HTTP method, submitted form) and produces the next database *)
(* state together with the response, recorded in resp.  The administrative *)
(* operations that the deletion policies of models.py are about (deleting  *)
(* a user, a category, a location) are actions as well.                    *)
(*                                                                         *)
(* Framework behaviour relied on (Django 3.2, the release this project     *)
(* targets): View.dispatch routes GET/POST to the handler; the             *)
(* LoginRequiredMixin answers an anonymous request with a redirect to the  *)
(* login page when ITS dispatch runs; DeleteView deletes on POST;          *)
(* get_object_or_404 raises Http404 when the lookup misses; a ModelForm    *)
(* saves only the fields it declares.                                      *)
(***************************************************************************)
EXTENDS Integers, FiniteSets, TLC

\* ---------------------------------------------------------------- bounds
MaxUsers    == 2
MaxPosts    == 2
MaxComments == 1
MaxTime     == 1

\* ------------------------------------------------------------ value sets
Anon      == 0                     \* request.user of an unauthenticated request
NoRow     == 0                     \* a null foreign key / an unused URL kwarg
UserIds   == 1..MaxUsers
PostIds   == 1..MaxPosts
CommentIds == 1..MaxComments
Times     == 0..MaxTime
Usernames == {"ann", "bob", "eve"}
Slugs     == {"news", "misc"}
NoSlug    == "-"
LocationIds == {1}
Titles    == {"a", "b"}
Texts     == {"x", "y"}
Methods   == {"GET", "POST"}
Blank     == ""                    \* a required form field left empty

VARIABLES
    users,        \* auth User table: id -> username
    categories,   \* Category table: slug -> is_published
    locations,    \* Location table: set of ids
    posts,        \* Post table: id -> row
    comments,     \* Comment table: id -> row
    nextUser, nextPost, nextComment,   \* the tables' auto-increment keys
    now,          \* timezone.now()
    resp          \* the last request and the response it was given

vars == <<users, categories, locations, posts, comments,
          nextUser, nextPost, nextComment, now, resp>>
db   == <<users, categories, locations, posts, comments,
          nextUser, nextPost, nextComment>>

\* ---------------------------------------------------------------- models
Post(title, pub_date, author, location, category, is_published) ==
    [title |-> title, pub_date |-> pub_date, author |-> author,
     location |-> location, category |-> category,
     is_published |-> is_published]

Comment(text, post, author) == [text |-> text, post |-> post, author |-> author]

\* functions as tables
Without(f, ks) == [k \in DOMAIN f \ ks |-> f[k]]
With(f, k, v)  == [x \in DOMAIN f \cup {k} |-> IF x = k THEN v ELSE f[x]]

\* Comment.post declared with on_delete=models.DO_NOTHING
Comment_post_on_delete_DoNothing(cs, gonePosts) == {}

\* on_delete=models.CASCADE of Comment.post
Comment_post_on_delete(cs, gonePosts) ==
    {c \in DOMAIN cs : cs[c].post \in gonePosts}

\* on_delete=models.CASCADE of Comment.author
Comment_author_on_delete(cs, goneUsers) ==
    {c \in DOMAIN cs : cs[c].author \in goneUsers}

\* on_delete=models.CASCADE of Post.author
Post_author_on_delete(ps, goneUsers) ==
    {p \in DOMAIN ps : ps[p].author \in goneUsers}

\* on_delete=models.SET_NULL of Post.location
Post_location_on_delete(ps, l) ==
    [p \in DOMAIN ps |->
        IF ps[p].location = l THEN [ps[p] EXCEPT !.location = NoRow] ELSE ps[p]]

\* Post.category declared with on_delete=models.CASCADE
Post_category_on_delete_Cascade(ps, s) ==
    [p \in {q \in DOMAIN ps : ps[q].category # s} |-> ps[p]]

\* on_delete=models.SET_NULL of Post.category
Post_category_on_delete(ps, s) ==
    [p \in DOMAIN ps |->
        IF ps[p].category = s THEN [ps[p] EXCEPT !.category = NoSlug] ELSE ps[p]]

\* ----------------------------------------------------------------- forms
\* PostForm: every Post field but author and created_at; category and
\* location are required choices among the existing rows.
PostFormData ==
    [title : Titles \cup {Blank}, pub_date : Times, location : LocationIds,
     category : Slugs, is_published : BOOLEAN]

PostForm_is_valid(f) ==
    /\ f.title # Blank
    /\ f.category \in DOMAIN categories
    /\ f.location \in locations

\* the instance after ModelForm.save(): the declared fields only
PostForm_save(instance, f) ==
    [instance EXCEPT !.title = f.title, !.pub_date = f.pub_date,
                     !.location = f.location, !.category = f.category,
                     !.is_published = f.is_published]

\* CommentForm: text only
CommentForm_is_valid(f) == f # Blank
CommentForm_save(instance, f) == [instance EXCEPT !.text = f]

\* ProfileForm: username (first_name, last_name, email carry no behaviour);
\* username is unique on User
ProfileForm_is_valid(user, f) ==
    /\ f # Blank
    /\ \A u \in DOMAIN users : u # user => users[u] # f

\* ------------------------------------------------------------- responses
Response(route, user, pk, id, name, kind, to, to_username, object_list) ==
    [route |-> route, user |-> user, pk |-> pk, id |-> id,
     name |-> name, kind |-> kind, to |-> to, to_username |-> to_username,
     object_list |-> object_list]

Render       == "200"
NotFound     == "404"
ToLogin      == "redirect:login"
ToPostDetail == "redirect:blog:post_detail"
ToProfile    == "redirect:blog:profile"
ToIndex      == "redirect:blog:index"
Super        == "super().dispatch"   \* the view's dispatch went on to its base

Requesters == DOMAIN users \cup {Anon}
is_authenticated(user) == user # Anon

\* LoginRequiredMixin.dispatch
LoginRequiredMixin_dispatch(user) ==
    IF is_authenticated(user) THEN Super ELSE ToLogin

\* ----------------------------------------------------------------- views
\* IndexList.get_queryset without pub_date__lte
IndexList_get_queryset_NoDateFilter ==
    {p \in DOMAIN posts :
        /\ posts[p].is_published
        /\ posts[p].category \in DOMAIN categories
        /\ categories[posts[p].category]}

\* the filter of IndexList.get_queryset
IndexList_get_queryset ==
    {p \in DOMAIN posts :
        /\ posts[p].is_published
        /\ posts[p].category \in DOMAIN categories
        /\ categories[posts[p].category]
        /\ posts[p].pub_date <= now}

IndexList(user) ==
    /\ resp' = Response("index", user, NoRow, NoRow, NoSlug,
                        Render, NoRow, NoSlug, IndexList_get_queryset)
    /\ UNCHANGED <<db, now>>

\* PostCreate.form_valid: the instance that is saved
PostCreate_form_valid(user, f) ==
    Post(f.title, f.pub_date, user, f.location, f.category, f.is_published)

PostCreate(user, method, f) ==
    LET gate == LoginRequiredMixin_dispatch(user)
        R(kind, name) == Response("create_post", user, NoRow, NoRow,
                                  NoSlug, kind, NoRow, name, {})
    IN  IF gate # Super
        THEN resp' = R(gate, NoSlug) /\ UNCHANGED <<db, now>>
        ELSE IF method = "POST" /\ PostForm_is_valid(f)
        THEN /\ nextPost <= MaxPosts
             /\ posts' = With(posts, nextPost, PostCreate_form_valid(user, f))
             /\ nextPost' = nextPost + 1
             /\ resp' = R(ToProfile, users[user])
             /\ UNCHANGED <<users, categories, locations, comments,
                            nextUser, nextComment, now>>
        ELSE resp' = R(Render, NoSlug) /\ UNCHANGED <<db, now>>

\* the comments PostDetail.get_context_data puts in the context
PostDetail_comments(pk) == {c \in DOMAIN comments : comments[c].post = pk}

PostDetail(user, pk) ==
    LET gate == LoginRequiredMixin_dispatch(user)
        R(kind, ol) == Response("post_detail", user, pk, NoRow, NoSlug,
                                kind, NoRow, NoSlug, ol)
    IN  /\ resp' = IF gate # Super THEN R(gate, {})
                   ELSE IF pk \notin DOMAIN posts THEN R(NotFound, {})
                   ELSE R(Render, PostDetail_comments(pk))
        /\ UNCHANGED <<db, now>>

\* PostUpdate.dispatch, up to its call of super().dispatch
PostUpdate_dispatch(user, pk) ==
    IF pk \notin DOMAIN posts THEN NotFound
    ELSE IF posts[pk].author # user THEN ToPostDetail
    ELSE LoginRequiredMixin_dispatch(user)

\* PostUpdate.form_valid: the instance that is saved
PostUpdate_form_valid(user, pk, f) ==
    [PostForm_save(posts[pk], f) EXCEPT !.author = user]

PostUpdate(user, pk, method, f) ==
    LET gate == PostUpdate_dispatch(user, pk)
        R(kind, to, name) == Response("edit_post", user, pk, NoRow,
                                      NoSlug, kind, to, name, {})
    IN  IF gate # Super
        THEN /\ resp' = R(gate, IF gate = ToPostDetail THEN pk ELSE NoRow, NoSlug)
             /\ UNCHANGED <<db, now>>
        ELSE IF method = "POST" /\ PostForm_is_valid(f)
        THEN /\ posts' = [posts EXCEPT ![pk] = PostUpdate_form_valid(user, pk, f)]
             /\ resp' = R(ToProfile, NoRow, users[user])
             /\ UNCHANGED <<users, categories, locations, comments,
                            nextUser, nextPost, nextComment, now>>
        ELSE resp' = R(Render, NoRow, NoSlug) /\ UNCHANGED <<db, now>>

\* PostDelete.dispatch without the comparison of instance.author
PostDelete_dispatch_NoAuthorCheck(user, pk) ==
    IF pk \notin DOMAIN posts THEN NotFound
    ELSE LoginRequiredMixin_dispatch(user)

\* PostDelete.dispatch, up to its call of super().dispatch
PostDelete_dispatch(user, pk) ==
    IF pk \notin DOMAIN posts THEN NotFound
    ELSE IF posts[pk].author # user THEN ToPostDetail
    ELSE LoginRequiredMixin_dispatch(user)

PostDelete(user, pk, method) ==
    LET gate == PostDelete_dispatch(user, pk)
        R(kind, to, name) == Response("delete_post", user, pk, NoRow,
                                      NoSlug, kind, to, name, {})
    IN  IF gate # Super
        THEN /\ resp' = R(gate, IF gate = ToPostDetail THEN pk ELSE NoRow, NoSlug)
             /\ UNCHANGED <<db, now>>
        ELSE IF method = "POST"
        THEN /\ posts' = Without(posts, {pk})
             /\ comments' = Without(comments, Comment_post_on_delete(comments, {pk}))
             /\ resp' = R(ToProfile, NoRow, users[user])
             /\ UNCHANGED <<users, categories, locations,
                            nextUser, nextPost, nextComment, now>>
        ELSE resp' = R(Render, NoRow, NoSlug) /\ UNCHANGED <<db, now>>

\* the filter of CategoryList.get_queryset, once the category is found
CategoryList_get_queryset(category_slug) ==
    {p \in DOMAIN posts :
        /\ posts[p].category = category_slug
        /\ posts[p].is_published
        /\ posts[p].pub_date <= now}

CategoryList(user, category_slug) ==
    LET gate == LoginRequiredMixin_dispatch(user)
        R(kind, ol) == Response("category_posts", user, NoRow, NoRow,
                                category_slug, kind, NoRow, NoSlug, ol)
    IN  /\ resp' = IF gate # Super THEN R(gate, {})
                   ELSE IF ~(/\ category_slug \in DOMAIN categories
                             /\ categories[category_slug])
                   THEN R(NotFound, {})
                   ELSE R(Render, CategoryList_get_queryset(category_slug))
        /\ UNCHANGED <<db, now>>

\* ListView.get_queryset of a view with model = Post: Post.objects.all()
ListView_get_queryset == DOMAIN posts

\* ProfileList.get_queryset, once the author is found
ProfileList_get_queryset(user, author) ==
    IF author = user
    THEN {p \in DOMAIN posts : posts[p].author = author}
    ELSE {p \in ListView_get_queryset : posts[p].author = author}

ProfileList(user, username) ==
    LET found == {u \in DOMAIN users : users[u] = username}
        R(kind, ol) == Response("profile", user, NoRow, NoRow,
                                username, kind, NoRow, NoSlug, ol)
    IN  /\ resp' = IF found = {} THEN R(NotFound, {})
                   ELSE R(Render,
                          ProfileList_get_queryset(user, CHOOSE u \in found : TRUE))
        /\ UNCHANGED <<db, now>>

ProfileUpdate(user, method, f) ==
    LET gate == LoginRequiredMixin_dispatch(user)
        R(kind, name) == Response("edit_profile", user, NoRow, NoRow,
                                  NoSlug, kind, NoRow, name, {})
    IN  IF gate # Super
        THEN resp' = R(gate, NoSlug) /\ UNCHANGED <<db, now>>
        ELSE IF method = "POST" /\ ProfileForm_is_valid(user, f)
        THEN /\ users' = [users EXCEPT ![user] = f]
             /\ resp' = R(ToProfile, f)
             /\ UNCHANGED <<categories, locations, posts, comments,
                            nextUser, nextPost, nextComment, now>>
        ELSE resp' = R(Render, NoSlug) /\ UNCHANGED <<db, now>>

\* CommentAdd.dispatch, up to its call of super().dispatch
CommentAdd_dispatch(user, pk) ==
    IF pk \notin DOMAIN posts THEN NotFound
    ELSE LoginRequiredMixin_dispatch(user)

\* CommentAdd.form_valid giving the comment to the post's author
CommentAdd_form_valid_PostAuthor(user, pk, f) == Comment(f, pk, posts[pk].author)

\* CommentAdd.form_valid: the instance that is saved
CommentAdd_form_valid(user, pk, f) == Comment(f, pk, user)

CommentAdd(user, pk, method, f) ==
    LET gate == CommentAdd_dispatch(user, pk)
        R(kind, to) == Response("add_comment", user, pk, NoRow,
                                NoSlug, kind, to, NoSlug, {})
    IN  IF gate # Super
        THEN resp' = R(gate, NoRow) /\ UNCHANGED <<db, now>>
        ELSE IF method = "POST" /\ CommentForm_is_valid(f)
        THEN /\ nextComment <= MaxComments
             /\ comments' = With(comments, nextComment,
                                 CommentAdd_form_valid(user, pk, f))
             /\ nextComment' = nextComment + 1
             /\ resp' = R(ToPostDetail, pk)
             /\ UNCHANGED <<users, categories, locations, posts,
                            nextUser, nextPost, now>>
        ELSE resp' = R(Render, NoRow) /\ UNCHANGED <<db, now>>

\* CommentUpdate.dispatch without the comparison of author
CommentUpdate_dispatch_NoAuthorCheck(user, pk, id) ==
    IF id \notin DOMAIN comments THEN NotFound
    ELSE IF pk \notin DOMAIN posts THEN NotFound
    ELSE LoginRequiredMixin_dispatch(user)

\* CommentUpdate.dispatch, up to its call of super().dispatch
CommentUpdate_dispatch(user, pk, id) ==
    IF id \notin DOMAIN comments THEN NotFound
    ELSE IF comments[id].author # user THEN ToPostDetail
    ELSE IF pk \notin DOMAIN posts THEN NotFound
    ELSE LoginRequiredMixin_dispatch(user)

\* CommentUpdate.get_success_url: post_data.pk, the post of the URL
CommentUpdate_get_success_url(pk, id) == pk

CommentUpdate(user, pk, id, method, f) ==
    LET gate == CommentUpdate_dispatch(user, pk, id)
        R(kind, to) == Response("edit_comment", user, pk, id,
                                NoSlug, kind, to, NoSlug, {})
    IN  IF gate # Super
        THEN /\ resp' = R(gate, IF gate = ToPostDetail THEN pk ELSE NoRow)
             /\ UNCHANGED <<db, now>>
        ELSE IF method = "POST" /\ CommentForm_is_valid(f)
        THEN /\ comments' = [comments EXCEPT ![id] = CommentForm_save(comments[id], f)]
             /\ resp' = R(ToPostDetail, CommentUpdate_get_success_url(pk, id))
             /\ UNCHANGED <<users, categories, locations, posts,
                            nextUser, nextPost, nextComment, now>>
        ELSE resp' = R(Render, NoRow) /\ UNCHANGED <<db, now>>

\* CommentDelete.dispatch, up to its call of super().dispatch
CommentDelete_dispatch(user, pk, id) ==
    IF id \notin DOMAIN comments THEN NotFound
    ELSE IF comments[id].author # user THEN ToPostDetail
    ELSE IF pk \notin DOMAIN posts THEN NotFound
    ELSE LoginRequiredMixin_dispatch(user)

\* CommentDelete.get_success_url: self.object.post.pk
CommentDelete_get_success_url(pk, id) == comments[id].post

CommentDelete(user, pk, id, method) ==
    LET gate == CommentDelete_dispatch(user, pk, id)
        R(kind, to) == Response("delete_comment", user, pk, id,
                                NoSlug, kind, to, NoSlug, {})
    IN  IF gate # Super
        THEN /\ resp' = R(gate, IF gate = ToPostDetail THEN pk ELSE NoRow)
             /\ UNCHANGED <<db, now>>
        ELSE IF method = "POST"
        THEN /\ comments' = Without(comments, {id})
             /\ resp' = R(ToPostDetail, CommentDelete_get_success_url(pk, id))
             /\ UNCHANGED <<users, categories, locations, posts,
                            nextUser, nextPost, nextComment, now>>
        ELSE resp' = R(Render, NoRow) /\ UNCHANGED <<db, now>>

\* --------------------------------------------- registration and the admin
\* auth/registration/: CreateView over UserCreationForm
Registration(username) ==
    /\ nextUser <= MaxUsers
    /\ \A u \in DOMAIN users : users[u] # username
    /\ users' = With(users, nextUser, username)
    /\ nextUser' = nextUser + 1
    /\ resp' = Response("registration", Anon, NoRow, NoRow, username,
                        ToIndex, NoRow, NoSlug, {})
    /\ UNCHANGED <<categories, locations, posts, comments,
                   nextPost, nextComment, now>>

Admin(op, pk, name) ==
    Response(op, Anon, pk, NoRow, name, Render, NoRow, NoSlug, {})

\* a Category row saved through the admin: created, or is_published set
CategorySave(slug, is_published) ==
    /\ categories' = With(categories, slug, is_published)
    /\ resp' = Admin("admin:save_category", NoRow, slug)
    /\ UNCHANGED <<users, locations, posts, comments,
                   nextUser, nextPost, nextComment, now>>

CategoryDelete(slug) ==
    /\ slug \in DOMAIN categories
    /\ categories' = Without(categories, {slug})
    /\ posts' = Post_category_on_delete(posts, slug)
    /\ resp' = Admin("admin:delete_category", NoRow, slug)
    /\ UNCHANGED <<users, locations, comments,
                   nextUser, nextPost, nextComment, now>>

LocationSave(l) ==
    /\ l \notin locations
    /\ locations' = locations \cup {l}
    /\ resp' = Admin("admin:save_location", l, NoSlug)
    /\ UNCHANGED <<users, categories, posts, comments,
                   nextUser, nextPost, nextComment, now>>

LocationDelete(l) ==
    /\ l \in locations
    /\ locations' = locations \ {l}
    /\ posts' = Post_location_on_delete(posts, l)
    /\ resp' = Admin("admin:delete_location", l, NoSlug)
    /\ UNCHANGED <<users, categories, comments,
                   nextUser, nextPost, nextComment, now>>

UserDelete(u) ==
    /\ u \in DOMAIN users
    /\ LET gonePosts == Post_author_on_delete(posts, {u})
       IN  /\ users' = Without(users, {u})
           /\ posts' = Without(posts, gonePosts)
           /\ comments' = Without(comments,
                            Comment_author_on_delete(comments, {u})
                              \cup Comment_post_on_delete(comments, gonePosts))
    /\ resp' = Admin("admin:delete_user", u, NoSlug)
    /\ UNCHANGED <<categories, locations, nextUser, nextPost, nextComment, now>>

\* the clock
Tick ==
    /\ now < MaxTime
    /\ now' = now + 1
    /\ UNCHANGED <<db, resp>>

\* ------------------------------------------------------- the state machine
NoResponse ==
    Response("none", Anon, NoRow, NoRow, NoSlug, Render, NoRow, NoSlug, {})

\* the database after migration: every table empty
Init ==
    /\ users = <<>>
    /\ categories = [s \in {} |-> TRUE]
    /\ locations = {}
    /\ posts = <<>>
    /\ comments = <<>>
    /\ nextUser = 1
    /\ nextPost = 1
    /\ nextComment = 1
    /\ now = 0
    /\ resp = NoResponse

\* a site in use: every user id registered, the category "news" published,
\* every location present, nothing posted yet
InitSite ==
    /\ users = [u \in UserIds |-> IF u = 1 THEN "ann" ELSE IF u = 2 THEN "bob" ELSE "eve"]
    /\ categories = [s \in {"news"} |-> TRUE]
    /\ locations = LocationIds
    /\ posts = <<>>
    /\ comments = <<>>
    /\ nextUser = MaxUsers + 1
    /\ nextPost = 1
    /\ nextComment = 1
    /\ now = 0
    /\ resp = NoResponse

CommentForms == Texts \cup {Blank}
ProfileForms == Usernames \cup {Blank}
\* a GET carries no form
PostBody(method, PF)    == IF method = "GET" THEN {CHOOSE f \in PF : TRUE} ELSE PF
CommentBody(method)     == IF method = "GET" THEN {Blank} ELSE CommentForms
ProfileBody(method)     == IF method = "GET" THEN {Blank} ELSE ProfileForms

\* blog/urls.py: the routes that write posts
PostRoutes(PF) ==
    \/ \E user \in Requesters, method \in Methods :
          \E f \in PostBody(method, PF) : PostCreate(user, method, f)
    \/ \E user \in Requesters, pk \in PostIds, method \in Methods :
          \E f \in PostBody(method, PF) : PostUpdate(user, pk, method, f)
    \/ \E user \in Requesters, pk \in PostIds, method \in Methods :
          PostDelete(user, pk, method)

\* blog/urls.py: the routes that write comments
CommentRoutes ==
    \/ \E user \in Requesters, pk \in PostIds, method \in Methods :
          \E f \in CommentBody(method) : CommentAdd(user, pk, method, f)
    \/ \E user \in Requesters, pk \in PostIds, id \in CommentIds, method \in Methods :
          \E f \in CommentBody(method) : CommentUpdate(user, pk, id, method, f)
    \/ \E user \in Requesters, pk \in PostIds, id \in CommentIds, method \in Methods :
          CommentDelete(user, pk, id, method)

\* blog/urls.py: the listings
ListRoutes ==
    \/ \E user \in Requesters : IndexList(user)
    \/ \E user \in Requesters, slug \in Slugs : CategoryList(user, slug)
    \/ \E user \in Requesters, username \in Usernames : ProfileList(user, username)

ProfileRoute ==
    \E user \in Requesters, method \in Methods :
        \E f \in ProfileBody(method) : ProfileUpdate(user, method, f)

DetailRoute ==
    \E user \in Requesters, pk \in PostIds : PostDetail(user, pk)

\* every route of blog/urls.py
BlogRoutes(PF) ==
    \/ PostRoutes(PF)
    \/ CommentRoutes
    \/ ListRoutes
    \/ ProfileRoute
    \/ DetailRoute

\* blogicum/urls.py: registration and the admin site
SiteRoutes ==
    \/ \E username \in Usernames : Registration(username)
    \/ \E slug \in Slugs, b \in BOOLEAN : CategorySave(slug, b)
    \/ \E slug \in Slugs : CategoryDelete(slug)
    \/ \E l \in LocationIds : LocationSave(l)
    \/ \E l \in LocationIds : LocationDelete(l)
    \/ \E u \in UserIds : UserDelete(u)

\* the whole program
Next == BlogRoutes(PostFormData) \/ SiteRoutes \/ Tick
Spec == Init /\ [][Next]_vars

\* Authorisation-gated dispatch: every route of the blog on a site in use.
\* Posts differ in title only.
AccessPostForms ==
    {f \in PostFormData : f.pub_date = 0 /\ f.is_published /\ f.category = "news"}
NextAccess == BlogRoutes(AccessPostForms)
SpecAccess == InitSite /\ [][NextAccess]_vars

\* Listings: what the three list views show as posts, categories and the
\* clock change.  Posts differ in what the filters read: a post is unpublished,
\* or dated ahead, or filed under the second category.
ListingPostForms ==
    {f \in PostFormData :
        /\ f.title = "a"
        /\ f.pub_date # 0 => f.is_published
        /\ f.category # "news" => (f.pub_date = 0 /\ f.is_published)}
NextListing ==
    \/ PostRoutes(ListingPostForms)
    \/ ListRoutes
    \/ \E slug \in Slugs, b \in BOOLEAN : CategorySave(slug, b)
    \/ \E slug \in Slugs : CategoryDelete(slug)
    \/ Tick
SpecListing == InitSite /\ [][NextListing]_vars

\* Deletion policies: posts, comments, categories and locations are created,
\* and posts, comments, users, categories and locations deleted, on a site in
\* use.  Posts differ in the rows they reference.
DeletionPostForms ==
    {f \in PostFormData : f.title = "a" /\ f.pub_date = 0 /\ f.is_published}
NextDeletion ==
    \/ \E user \in Requesters, f \in DeletionPostForms : PostCreate(user, "POST", f)
    \/ \E user \in Requesters, pk \in PostIds : PostDelete(user, pk, "POST")
    \/ \E user \in Requesters, pk \in PostIds : CommentAdd(user, pk, "POST", "x")
    \/ \E user \in Requesters, pk \in PostIds, id \in CommentIds :
          CommentDelete(user, pk, id, "POST")
    \/ \E slug \in Slugs, b \in BOOLEAN : CategorySave(slug, b)
    \/ \E slug \in Slugs : CategoryDelete(slug)
    \/ \E l \in LocationIds : LocationSave(l)
    \/ \E l \in LocationIds : LocationDelete(l)
    \/ \E u \in UserIds : UserDelete(u)
SpecDeletion == InitSite /\ [][NextDeletion]_vars

\* ------------------------------------------------------------ properties
\* What a step did, read off the request that resp' echoes and the tables
\* before and after.
PostChanged(p)    == p \in DOMAIN posts' /\ posts'[p] # posts[p]
PostRemoved(p)    == p \notin DOMAIN posts'
CommentChanged(c) == c \in DOMAIN comments' /\ comments'[c] # comments[c]
CommentRemoved(c) == c \notin DOMAIN comments'
Stored            == db' = db

\* the visibility invariant of the data model, as the specification words it
Visible(p) ==
    /\ posts[p].is_published = TRUE
    /\ posts[p].category # NoSlug
    /\ posts[p].category \in DOMAIN categories
    /\ categories[posts[p].category] = TRUE
    /\ posts[p].pub_date <= now

\* C1: a request to edit or delete a post or a comment, made by anyone but
\* its author, is answered with a redirect to the post detail page of the
\* request's post id, and no stored row changes.
C1_NonAuthorIsRedirected ==
    [][/\ ( /\ resp'.route \in {"edit_post", "delete_post"}
            /\ resp'.pk \in DOMAIN posts
            /\ posts[resp'.pk].author # resp'.user )
          => (resp'.kind = ToPostDetail /\ resp'.to = resp'.pk /\ Stored)
       /\ ( /\ resp'.route \in {"edit_comment", "delete_comment"}
            /\ resp'.id \in DOMAIN comments
            /\ comments[resp'.id].author # resp'.user )
          => (resp'.kind = ToPostDetail /\ resp'.to = resp'.pk /\ Stored)
      ]_vars

\* C1 witness: a registered user who is not the comment's author has asked to
\* edit or delete it and was sent to the post detail page.
C1_Witness ==
    /\ resp.route \in {"edit_comment", "delete_comment"}
    /\ resp.user # Anon
    /\ resp.id \in DOMAIN comments
    /\ comments[resp.id].author # resp.user
    /\ resp.kind = ToPostDetail
    /\ resp.to = comments[resp.id].post

\* C4 as claimed: every step that changes or removes a post or a comment is a
\* request of that row's own author.
C4_OnlyAuthorMutates ==
    [][/\ \A p \in DOMAIN posts :
             (PostChanged(p) \/ PostRemoved(p)) => resp'.user = posts[p].author
       /\ \A c \in DOMAIN comments :
             (CommentChanged(c) \/ CommentRemoved(c))
                => resp'.user = comments[c].author
      ]_vars

\* C4 amended: every step that changes or removes a post, or changes a
\* comment, is a request of that row's own author; a step that removes a
\* comment is a request of the comment's author or the deletion of its parent
\* post by that post's author.
C4_OnlyAuthorMutatesOrCascade ==
    [][/\ \A p \in DOMAIN posts :
             (PostChanged(p) \/ PostRemoved(p)) => resp'.user = posts[p].author
       /\ \A c \in DOMAIN comments :
             /\ CommentChanged(c) => resp'.user = comments[c].author
             /\ CommentRemoved(c) =>
                  \/ resp'.user = comments[c].author
                  \/ /\ resp'.route = "delete_post"
                     /\ resp'.pk = comments[c].post
                     /\ PostRemoved(comments[c].post)
                     /\ resp'.user = posts[comments[c].post].author
      ]_vars

\* C4 witness: a post has just been deleted at its author's request, and the
\* only comment ever written is gone.
C4_Witness ==
    /\ resp.route = "delete_post"
    /\ resp.kind = ToProfile
    /\ resp.pk \notin DOMAIN posts
    /\ nextComment > 1
    /\ DOMAIN comments = {}

\* C9: every post that appears was created by a post-create request and
\* carries the requester as author; every comment that appears was created by
\* a comment-add request and carries the requester as author and the
\* request's post as parent; no step changes the author of a post, or the
\* author or parent of a comment, that it keeps.
C9_OwnershipFixedAtCreation ==
    [][/\ \A p \in DOMAIN posts' \ DOMAIN posts :
             resp'.route = "create_post" /\ posts'[p].author = resp'.user
       /\ \A p \in DOMAIN posts' \cap DOMAIN posts :
             posts'[p].author = posts[p].author
       /\ \A c \in DOMAIN comments' \ DOMAIN comments :
             /\ resp'.route = "add_comment"
             /\ comments'[c].author = resp'.user
             /\ comments'[c].post = resp'.pk
       /\ \A c \in DOMAIN comments' \cap DOMAIN comments :
             /\ comments'[c].author = comments[c].author
             /\ comments'[c].post = comments[c].post
      ]_vars

\* C9 witness: a comment written by one user on another user's post has just
\* been added.
C9_Witness ==
    /\ resp.route = "add_comment"
    /\ resp.kind = ToPostDetail
    /\ \E c \in DOMAIN comments :
          /\ comments[c].author = resp.user
          /\ comments[c].post = resp.pk
          /\ posts[resp.pk].author # resp.user

\* C7 as claimed: an unauthenticated request to a route that requires
\* authentication is answered with a redirect to the login page.
GatedRoutes ==
    {"post_detail", "create_post", "edit_post", "delete_post", "category_posts",
     "edit_profile", "add_comment", "edit_comment", "delete_comment"}
C7_AnonymousGoesToLogin ==
    (resp.user = Anon /\ resp.route \in GatedRoutes) => resp.kind = ToLogin

\* C8 as claimed: a request of an authenticated user that carries a post id,
\* comment id, category slug or username that resolves to no row ends in 404
\* and changes no stored row.
TakesPk == {"post_detail", "edit_post", "delete_post", "add_comment",
            "edit_comment", "delete_comment"}
TakesId == {"edit_comment", "delete_comment"}
Unresolved(r) ==
    \/ r.route \in TakesPk /\ r.pk \notin DOMAIN posts
    \/ r.route \in TakesId /\ r.id \notin DOMAIN comments
    \/ r.route = "category_posts" /\ r.name \notin DOMAIN categories
    \/ r.route = "profile" /\ \A u \in DOMAIN users : users[u] # r.name
C8_MissingIdIsNotFound ==
    [][(resp'.user # Anon /\ Unresolved(resp'))
          => (resp'.kind = NotFound /\ Stored)]_vars

\* C10 as claimed: a comment edit or delete request addressed (p, c) changes
\* or removes c only if c's parent post is p, and then redirects to the
\* detail page of c's parent post.
C10_CommentAddressedThroughItsPost ==
    [][( /\ resp'.route \in {"edit_comment", "delete_comment"}
         /\ resp'.id \in DOMAIN comments
         /\ (CommentChanged(resp'.id) \/ CommentRemoved(resp'.id)) )
          => /\ comments[resp'.id].post = resp'.pk
             /\ resp'.kind = ToPostDetail
             /\ resp'.to = comments[resp'.id].post
      ]_vars

\* a step that answers a request to a list view: the clock stands still and
\* nothing is stored
Answered(route) == resp'.route = route /\ Stored /\ now' = now
Listed(route)   == Answered(route) /\ resp'.kind = Render

\* C2 as claimed: the profile list of user A shows the owner every post A
\* authored, and shows anyone else exactly A's posts that satisfy the
\* visibility invariant.
C2_ProfileListHidesFromOthers ==
    [][Listed("profile") =>
         \E a \in DOMAIN users :
            /\ users[a] = resp'.name
            /\ resp'.object_list =
                 IF resp'.user = a
                 THEN {p \in DOMAIN posts : posts[p].author = a}
                 ELSE {p \in DOMAIN posts : posts[p].author = a /\ Visible(p)}
      ]_vars

\* C3: the index list shows exactly the visible posts; the category list of
\* an authenticated requester shows exactly the published posts of that
\* category dated now or earlier when the category exists and is published,
\* and is a 404 otherwise.
C3_PublicListingsShowVisiblePosts ==
    [][/\ Listed("index") =>
            resp'.object_list = {p \in DOMAIN posts : Visible(p)}
       /\ (Answered("category_posts") /\ resp'.user # Anon) =>
            IF resp'.name \in DOMAIN categories /\ categories[resp'.name] = TRUE
            THEN /\ resp'.kind = Render
                 /\ resp'.object_list =
                      {p \in DOMAIN posts :
                          /\ posts[p].category = resp'.name
                          /\ posts[p].is_published = TRUE
                          /\ posts[p].pub_date <= now}
                 /\ resp'.object_list
                      = {p \in DOMAIN posts :
                            posts[p].category = resp'.name /\ Visible(p)}
            ELSE resp'.kind = NotFound /\ resp'.object_list = {}
      ]_vars

\* C3 witness: the index has just been listed with one post shown, while
\* another post is held back: it is unpublished, dated ahead, or without a
\* published category.
C3_Witness ==
    /\ resp.route = "index"
    /\ resp.object_list = {p \in DOMAIN posts : Visible(p)}
    /\ resp.object_list # {}
    /\ \E p \in DOMAIN posts : p \notin resp.object_list

\* referential integrity of the owning references
OwnersExist ==
    /\ \A p \in DOMAIN posts : posts[p].author \in DOMAIN users
    /\ \A c \in DOMAIN comments :
          /\ comments[c].post \in DOMAIN posts
          /\ comments[c].author \in DOMAIN users

\* C5: deleting a post removes that post and the comments on it and nothing
\* else; deleting a user removes that user, the posts the user authored, the
\* comments the user authored and the comments on those posts, and nothing
\* else; and in every state every comment's post and author and every post's
\* author exist.
C5_CascadeOnPostAndUser ==
    /\ []OwnersExist
    /\ [][/\ (resp'.route = "delete_post" /\ resp'.kind = ToProfile) =>
               /\ DOMAIN posts' = DOMAIN posts \ {resp'.pk}
               /\ \A p \in DOMAIN posts' : posts'[p] = posts[p]
               /\ DOMAIN comments' =
                    {c \in DOMAIN comments : comments[c].post # resp'.pk}
               /\ \A c \in DOMAIN comments' : comments'[c] = comments[c]
               /\ UNCHANGED <<users, categories, locations>>
          /\ resp'.route = "admin:delete_user" =>
               /\ DOMAIN users' = DOMAIN users \ {resp'.pk}
               /\ \A u \in DOMAIN users' : users'[u] = users[u]
               /\ DOMAIN posts' =
                    {p \in DOMAIN posts : posts[p].author # resp'.pk}
               /\ \A p \in DOMAIN posts' : posts'[p] = posts[p]
               /\ DOMAIN comments' =
                    {c \in DOMAIN comments :
                        /\ comments[c].author # resp'.pk
                        /\ posts[comments[c].post].author # resp'.pk}
               /\ \A c \in DOMAIN comments' : comments'[c] = comments[c]
               /\ UNCHANGED <<categories, locations>>
         ]_vars

\* C5 witness: a user has just been deleted; a post of another user is still
\* there, and the only comment ever written is gone.
C5_Witness ==
    /\ resp.route = "admin:delete_user"
    /\ resp.pk \notin DOMAIN users
    /\ DOMAIN posts # {}
    /\ nextPost > MaxPosts
    /\ nextComment > 1
    /\ DOMAIN comments = {}

\* C6: deleting a location or a category deletes no post and no comment;
\* each post that referenced it has that reference null and every other
\* field as before, and every other post and every comment is as before.
C6_SetNullOnLocationAndCategory ==
    [][/\ resp'.route = "admin:delete_location" =>
            /\ DOMAIN posts' = DOMAIN posts
            /\ \A p \in DOMAIN posts :
                  posts'[p] = IF posts[p].location = resp'.pk
                              THEN [posts[p] EXCEPT !.location = NoRow]
                              ELSE posts[p]
            /\ comments' = comments
       /\ resp'.route = "admin:delete_category" =>
            /\ DOMAIN posts' = DOMAIN posts
            /\ \A p \in DOMAIN posts :
                  posts'[p] = IF posts[p].category = resp'.name
                              THEN [posts[p] EXCEPT !.category = NoSlug]
                              ELSE posts[p]
            /\ comments' = comments
      ]_vars

\* C6 witness: a category has just been deleted; one post has lost its
\* category, another post still has one, and a comment is still there.
C6_Witness ==
    /\ resp.route = "admin:delete_category"
    /\ resp.name \notin DOMAIN categories
    /\ \E p, q \in DOMAIN posts :
          /\ posts[p].category = NoSlug
          /\ posts[q].category \in DOMAIN categories
    /\ DOMAIN comments # {}
====
